---- MODULE Spec2Model ----
(***************************************************************************)
(* A model of the DAV MCP server (src/index.js): the start-up script that  *)
(* reads the environment, resolves the provider, builds the three DAV      *)
(* client handles and registers the tools, and the six tool handlers, each *)
(* run step by step between its suspension points (the awaited login and   *)
(* fetch calls of the external DAV client).  src/unnamed/part_000 is the   *)
(* same script with the provider's name spliced into the tool names; its   *)
(* handlers read as those of src/index.js, whose names the model keeps.    *)
(*                                                                         *)
(* JavaScript strings are TLA+ strings (Len, \o and SubSeq apply to them). *)
(* A JavaScript value that may be something else than a string is a tagged *)
(* record: Undefined, Null, Str(s), Err(m) (an Error object with message   *)
(* m), Arr(l) (an array of objects).                                       *)
(***************************************************************************)
EXTENDS Naturals, Sequences, FiniteSets, TLC

VARIABLES
  env,              \* process.env: DAV_PROVIDER, DAV_USERNAME, DAV_PASSWORD
  proc,             \* "starting", "serving" (server.connect done) or "exited"
  exitCode,         \* the exit status once proc = "exited"
  stderr,           \* the start-up diagnostics on the error channel (the
                    \* handlers' console.error lines are read by no code
                    \* and are not recorded)
  DAV_PROVIDER,     \* the lower-cased provider selector
  DAV_USERNAME,
  DAV_PASSWORD,
  calDavServerUrl,
  cardDavServerUrl,
  webDavServerUrl,
  davClient,        \* the CalDAV client handle, or Undefined
  cardDavClient,    \* the CardDAV client handle, or Undefined
  webDavClient,     \* the WebDAV client handle, or Undefined
  tools,            \* the names registered with server.tool
  inv,              \* the invocations in progress, one record per slot
  fetchedBefore     \* history: the container URLs that the invocations which
                    \* have ended were given by fetchCalendars and
                    \* fetchAddressBooks (no code reads it)

config == <<DAV_PROVIDER, DAV_USERNAME, DAV_PASSWORD, calDavServerUrl,
            cardDavServerUrl, webDavServerUrl, davClient, cardDavClient,
            webDavClient, tools>>

process == <<proc, exitCode, stderr>>

vars == <<env, proc, exitCode, stderr, DAV_PROVIDER, DAV_USERNAME,
          DAV_PASSWORD, calDavServerUrl, cardDavServerUrl, webDavServerUrl,
          davClient, cardDavClient, webDavClient, tools, inv, fetchedBefore>>

-----------------------------------------------------------------------------
(* Bounds of the model.                                                    *)

\* The longest list a collaborator call returns.
MaxList == 2

-----------------------------------------------------------------------------
(* JavaScript values.                                                      *)

Undefined == [t |-> "undefined"]

Null == [t |-> "null"]

Str(s) == [t |-> "string", v |-> s]

Err(m) == [t |-> "Error", message |-> m]

Arr(l) == [t |-> "array", items |-> l]

\* ToBoolean, as applied by !x, x && y and x || y.
Truthy(x) ==
  CASE x.t = "undefined" -> FALSE
    [] x.t = "null"      -> FALSE
    [] x.t = "string"    -> x.v # ""
    [] OTHER             -> TRUE

\* a || b
OrElse(a, b) == IF Truthy(a) THEN a ELSE b

CharAt(s, i) == SubSeq(s, i, i)

\* String.prototype.startsWith / endsWith with a one-character argument.
startsWith(s, c) == Len(s) >= 1 /\ CharAt(s, 1) = c

endsWith(s, c) == Len(s) >= 1 /\ CharAt(s, Len(s)) = c

\* s.substring(1)
substring1(s) == SubSeq(s, 2, Len(s))

\* s.slice(0, -1)
sliceDropLast(s) == SubSeq(s, 1, Len(s) - 1)

\* s.includes(u)
Includes(s, u) ==
  \E i \in 1..(Len(s) + 1) :
    i + Len(u) - 1 <= Len(s) /\ SubSeq(s, i, i + Len(u) - 1) = u

UpperToLower ==
  [c \in {"A", "B", "C", "D", "E", "F", "G", "H", "I", "J", "K", "L", "M",
          "N", "O", "P", "Q", "R", "S", "T", "U", "V", "W", "X", "Y", "Z"} |->
     CASE c = "A" -> "a" [] c = "B" -> "b" [] c = "C" -> "c" [] c = "D" -> "d"
       [] c = "E" -> "e" [] c = "F" -> "f" [] c = "G" -> "g" [] c = "H" -> "h"
       [] c = "I" -> "i" [] c = "J" -> "j" [] c = "K" -> "k" [] c = "L" -> "l"
       [] c = "M" -> "m" [] c = "N" -> "n" [] c = "O" -> "o" [] c = "P" -> "p"
       [] c = "Q" -> "q" [] c = "R" -> "r" [] c = "S" -> "s" [] c = "T" -> "t"
       [] c = "U" -> "u" [] c = "V" -> "v" [] c = "W" -> "w" [] c = "X" -> "x"
       [] c = "Y" -> "y" [] c = "Z" -> "z"]

LowerChar(c) == IF c \in DOMAIN UpperToLower THEN UpperToLower[c] ELSE c

\* The selector compared as given.
toLowerCase_Identity(s) == s

RECURSIVE toLowerCase(_)
\* String.prototype.toLowerCase on the ASCII strings of the model.
toLowerCase(s) ==
  IF s = "" THEN ""
  ELSE LowerChar(CharAt(s, 1)) \o toLowerCase(substring1(s))

UpperChar(c) ==
  IF \E u \in DOMAIN UpperToLower : UpperToLower[u] = c
  THEN CHOOSE u \in DOMAIN UpperToLower : UpperToLower[u] = c
  ELSE c

RECURSIVE CaseVariants(_)
\* The spellings of the lower-case word s in every mix of letter case.
CaseVariants(s) ==
  IF s = "" THEN {""}
  ELSE {c \o r : c \in {CharAt(s, 1), UpperChar(CharAt(s, 1))},
                 r \in CaseVariants(substring1(s))}

-----------------------------------------------------------------------------
(* Start-up: src/index.js lines 9-80, the tool registrations and line 289.  *)

\* new DAVClient({serverUrl, credentials, authMethod: "Basic", defaultAccountType}):
\* the handle is assembled and no call is made on it; authenticated tells
\* whether a login() on it has succeeded since.
DAVClient(serverUrl, username, password, accountType) ==
  [t |-> "DAVClient",
   serverUrl |-> serverUrl,
   credentials |-> [username |-> username, password |-> password],
   authMethod |-> "Basic",
   defaultAccountType |-> accountType,
   authenticated |-> FALSE]

CalendarTools == {"get_my_calendars", "get_calendar_events"}

ContactTools == {"get_my_contact_lists", "get_contacts_from_list"}

FileTools == {"list_my_files_and_folders", "get_file_or_folder_details"}

AllTools == CalendarTools \cup ContactTools \cup FileTools

\* The file tools registered outside if (webDavClient).
RegisteredTools_Unconditional(webDav) == AllTools

\* The server.tool calls the script makes once the clients are built: the
\* four calendar and contact tools always, the two file tools inside
\* if (webDavClient).
RegisteredTools(webDav) ==
  CalendarTools \cup ContactTools \cup (IF Truthy(webDav) THEN FileTools ELSE {})

\* The state a run of the script cannot have assigned yet.
Unset ==
  [proc |-> "starting", exitCode |-> 0, stderr |-> <<>>,
   DAV_PROVIDER |-> Undefined, DAV_USERNAME |-> Undefined,
   DAV_PASSWORD |-> Undefined,
   calDavServerUrl |-> Undefined, cardDavServerUrl |-> Undefined,
   webDavServerUrl |-> Undefined,
   davClient |-> Undefined, cardDavClient |-> Undefined,
   webDavClient |-> Undefined, tools |-> {}]

\* && in place of ||.
CredentialsMissing_Both(username, password) ==
  ~Truthy(Str(username)) /\ ~Truthy(Str(password))

\* if (!DAV_USERNAME || !DAV_PASSWORD)
CredentialsMissing(username, password) ==
  ~Truthy(Str(username)) \/ ~Truthy(Str(password))

\* The whole top-level script applied to the environment e: the state it
\* leaves when it either exits or reaches server.connect.
Boot(e) ==
  IF e.DAV_PROVIDER.t # "string"
  THEN \* line 9: undefined.toLowerCase() throws; the uncaught TypeError ends
       \* the process with status 1 and its trace on the error channel
       [Unset EXCEPT !.proc = "exited", !.exitCode = 1,
          !.stderr = <<"TypeError: Cannot read properties of undefined (reading 'toLowerCase')">>]
  ELSE
    LET provider == toLowerCase(e.DAV_PROVIDER.v)
        username == OrElse(e.DAV_USERNAME, Str("")).v
        password == OrElse(e.DAV_PASSWORD, Str("")).v
        read == [Unset EXCEPT !.DAV_PROVIDER = Str(provider),
                              !.DAV_USERNAME = Str(username),
                              !.DAV_PASSWORD = Str(password)]
    IN
    IF CredentialsMissing(username, password)
    THEN [read EXCEPT !.proc = "exited", !.exitCode = 1,
            !.stderr = <<"Error: DAV_USERNAME and DAV_PASSWORD environment variables are required.">>]
    ELSE IF provider = "fastmail"
    THEN
      LET cal  == "https://caldav.fastmail.com/dav/principals/user/" \o username \o "/"
          card == "https://carddav.fastmail.com/dav/principals/user/" \o username \o "/"
          web  == "https://webdav.fastmail.com/dav/principals/user/" \o username \o "/"
          webClient == DAVClient(web, username, password, "webdav")
      IN [read EXCEPT !.proc = "serving",
            !.calDavServerUrl = Str(cal),
            !.cardDavServerUrl = Str(card),
            !.webDavServerUrl = Str(web),
            !.davClient = DAVClient(cal, username, password, "caldav"),
            !.cardDavClient = DAVClient(card, username, password, "carddav"),
            !.webDavClient = webClient,
            !.tools = RegisteredTools(webClient)]
    ELSE IF provider = "icloud"
    THEN
      LET cal  == "https://caldav.icloud.com"
          card == "https://contacts.icloud.com"
      IN [read EXCEPT !.proc = "serving",
            !.calDavServerUrl = Str(cal),
            !.cardDavServerUrl = Str(card),
            !.webDavServerUrl = Null,
            !.davClient = DAVClient(cal, username, password, "caldav"),
            !.cardDavClient = DAVClient(card, username, password, "carddav"),
            !.tools = RegisteredTools(Undefined)]
    ELSE [read EXCEPT !.proc = "exited", !.exitCode = 1,
            !.stderr = <<"Error: Unsupported DAV_PROVIDER \"" \o provider
                          \o "\". Use \"fastmail\" or \"icloud\".">>]

-----------------------------------------------------------------------------
(* JSON.stringify on the values the handlers serialize.                     *)

Obj(url) == [t |-> "object", url |-> url]

JSONChar(c) ==
  CASE c = "\"" -> "\\\""
    [] c = "\\" -> "\\\\"
    [] c = "\n" -> "\\n"
    [] OTHER    -> c

RECURSIVE JSONEscape(_)
JSONEscape(s) ==
  IF s = "" THEN "" ELSE JSONChar(CharAt(s, 1)) \o JSONEscape(substring1(s))

\* A string as a JSON string literal.
JSONString(s) == "\"" \o JSONEscape(s) \o "\""

\* One array element at indent 2: an object with its url property.
JSONItem(o) == "  {\n    \"url\": " \o JSONString(o.url) \o "\n  }"

RECURSIVE JSONItems(_)
JSONItems(l) ==
  IF Len(l) = 1 THEN JSONItem(l[1])
  ELSE JSONItem(l[1]) \o ",\n" \o JSONItems(Tail(l))

\* JSON.stringify(x, null, 2) for an array of objects.
stringifyIndented(x) ==
  IF x.items = <<>> THEN "[]" ELSE "[\n" \o JSONItems(x.items) \o "\n]"

\* JSON.stringify(x) for what a catch block passes it: a string, or an
\* Error object (no enumerable property of its own: "{}").
stringify(x) ==
  CASE x.t = "string" -> JSONString(x.v)
    [] x.t = "Error"  -> "{}"

-----------------------------------------------------------------------------
(* The handlers.  A handler runs from one suspension point to the next: a  *)
(* step is either the next awaited call on a client handle, the envelope   *)
(* the handler returns, or the exception that leaves it.                   *)

Call(client, op, arg) == [k |-> "call", client |-> client, op |-> op, arg |-> arg]

Return(envelope, path) == [k |-> "return", envelope |-> envelope, path |-> path]

Throw(error) == [k |-> "throw", error |-> error]

\* { content: [{ type: "text", text }] }
Success(text) == [content |-> <<[type |-> "text", text |-> text]>>]

\* An error envelope without isError.
Failure_NoFlag(text) == [content |-> <<[type |-> "text", text |-> text]>>]

\* { content: [{ type: "text", text }], isError: true }
Failure(text) == [content |-> <<[type |-> "text", text |-> text]>>, isError |-> TRUE]

\* error.message
MessageOf(error) == IF error.t = "Error" THEN Str(error.message) ELSE Undefined

\* catch (error) { ... text: `${prefix}${JSON.stringify(error.message || error)}` ... }
\* Reading .message of null or undefined throws a TypeError inside the catch
\* block, which nothing catches.
CatchBlock(prefix, error) ==
  IF error.t \in {"null", "undefined"}
  THEN Throw(Err("Cannot read properties of " \o error.t \o " (reading 'message')"))
  ELSE Return(Failure(prefix \o stringify(OrElse(MessageOf(error), error))), "caught")

CatchPrefix(tool) ==
  CASE tool = "get_my_calendars"           -> "Error listing calendars: "
    [] tool = "get_calendar_events"        -> "Error fetching calendar objects: "
    [] tool = "get_my_contact_lists"       -> "Error listing address books: "
    [] tool = "get_contacts_from_list"     -> "Error fetching vCards: "
    [] tool = "list_my_files_and_folders"  -> "Error listing WebDAV collection: "
    [] tool = "get_file_or_folder_details" -> "Error getting WebDAV file metadata: "

\* The contact handlers closing over the calendar client.
ClientOf_ContactsOnCalendar(tool) ==
  CASE tool \in CalendarTools -> "davClient"
    [] tool \in ContactTools  -> "davClient"
    [] tool \in FileTools     -> "webDavClient"

\* The client variable each handler closes over.
ClientOf(tool) ==
  CASE tool \in CalendarTools -> "davClient"
    [] tool \in ContactTools  -> "cardDavClient"
    [] tool \in FileTools     -> "webDavClient"

\* A lookup that forgives a missing trailing slash.
RECURSIVE find_IgnoringTrailingSlash(_, _)
find_IgnoringTrailingSlash(l, url) ==
  IF l = <<>> THEN Undefined
  ELSE IF l[1].url = url \/ l[1].url = url \o "/" THEN l[1]
  ELSE find_IgnoringTrailingSlash(Tail(l), url)

\* list.find(x => x.url === url)
RECURSIVE find(_, _)
find(l, url) ==
  IF l = <<>> THEN Undefined
  ELSE IF l[1].url = url THEN l[1] ELSE find(Tail(l), url)

\* || in place of &&.
fetchOptions_EitherBound(calendar, timeRangeStart, timeRangeEnd) ==
  IF Truthy(timeRangeStart) \/ Truthy(timeRangeEnd)
  THEN [calendar |-> calendar,
        timeRange |-> [start |-> timeRangeStart, end |-> timeRangeEnd]]
  ELSE [calendar |-> calendar]

\* const fetchOptions = { calendar };
\* if (timeRangeStart && timeRangeEnd) fetchOptions.timeRange = { start, end };
fetchOptions(calendar, timeRangeStart, timeRangeEnd) ==
  IF Truthy(timeRangeStart) /\ Truthy(timeRangeEnd)
  THEN [calendar |-> calendar,
        timeRange |-> [start |-> timeRangeStart, end |-> timeRangeEnd]]
  ELSE [calendar |-> calendar]

\* The target address of list_my_files_and_folders.
collectionUrl(serverUrl, path) ==
  IF Truthy(path) /\ path.v # "/"
  THEN LET base == IF endsWith(serverUrl, "/") THEN sliceDropLast(serverUrl)
                   ELSE serverUrl
           relativePath == IF startsWith(path.v, "/") THEN substring1(path.v)
                           ELSE path.v
       IN base \o "/" \o relativePath
  ELSE serverUrl

\* A handler entry that logs in only while the handle is not authenticated.
Enter_LazyLogin(tool, client) ==
  IF tool \in CalendarTools /\ ~Truthy(client)
  THEN Return(Failure("CalDAV client not initialized for this provider."), "guard")
  ELSE IF tool \in ContactTools /\ ~Truthy(client)
  THEN Return(Failure("CardDAV client not initialized for this provider."), "guard")
  ELSE IF ~Truthy(client)
  THEN CatchBlock(CatchPrefix(tool),
                  Err("Cannot read properties of undefined (reading 'login')"))
  ELSE IF client.authenticated /\ tool = "get_my_calendars"
  THEN Call("davClient", "fetchCalendars", Undefined)
  ELSE Call(ClientOf(tool), "login", Undefined)

\* Entry of a handler, up to its first await: the absent-client guard of the
\* calendar and contact handlers, then client.login().
Enter(tool, client) ==
  IF tool \in CalendarTools /\ ~Truthy(client)
  THEN Return(Failure("CalDAV client not initialized for this provider."), "guard")
  ELSE IF tool \in ContactTools /\ ~Truthy(client)
  THEN Return(Failure("CardDAV client not initialized for this provider."), "guard")
  ELSE IF ~Truthy(client)
  THEN \* webDavClient.login() on undefined: a TypeError inside try
       CatchBlock(CatchPrefix(tool),
                  Err("Cannot read properties of undefined (reading 'login')"))
  ELSE Call(ClientOf(tool), "login", Undefined)

get_my_calendars(op, v) ==
  CASE op = "login"          -> Call("davClient", "fetchCalendars", Undefined)
    [] op = "fetchCalendars" -> Return(Success(stringifyIndented(v)), "success")

get_calendar_events(args, op, v) ==
  CASE op = "login" -> Call("davClient", "fetchCalendars", Undefined)
    [] op = "fetchCalendars" ->
         LET calendar == find(v.items, args.calendarUrl)
         IN IF ~Truthy(calendar)
            THEN Return(Failure("Error: Calendar with URL " \o args.calendarUrl
                                \o " not found."), "notfound")
            ELSE Call("davClient", "fetchCalendarObjects",
                      fetchOptions(calendar, args.timeRangeStart, args.timeRangeEnd))
    [] op = "fetchCalendarObjects" -> Return(Success(stringifyIndented(v)), "success")

get_my_contact_lists(op, v) ==
  CASE op = "login"             -> Call("cardDavClient", "fetchAddressBooks", Undefined)
    [] op = "fetchAddressBooks" -> Return(Success(stringifyIndented(v)), "success")

\* The handler returning the address books without fetching the vCards.
get_contacts_from_list_ListOnly(args, op, v) ==
  CASE op = "login" -> Call("cardDavClient", "fetchAddressBooks", Undefined)
    [] op = "fetchAddressBooks" ->
         LET addressBook == find(v.items, args.addressBookUrl)
         IN IF ~Truthy(addressBook)
            THEN Return(Failure("Error: Address book with URL " \o args.addressBookUrl
                                \o " not found."), "notfound")
            ELSE Return(Success(stringifyIndented(v)), "success")

get_contacts_from_list(args, op, v) ==
  CASE op = "login" -> Call("cardDavClient", "fetchAddressBooks", Undefined)
    [] op = "fetchAddressBooks" ->
         LET addressBook == find(v.items, args.addressBookUrl)
         IN IF ~Truthy(addressBook)
            THEN Return(Failure("Error: Address book with URL " \o args.addressBookUrl
                                \o " not found."), "notfound")
            ELSE Call("cardDavClient", "fetchVCards", [addressBook |-> addressBook])
    [] op = "fetchVCards" -> Return(Success(stringifyIndented(v)), "success")

list_my_files_and_folders(args, op, v, client) ==
  CASE op = "login" ->
         Call("webDavClient", "fetchObjects",
              [collection |-> collectionUrl(client.serverUrl, args.path)])
    [] op = "fetchObjects" -> Return(Success(stringifyIndented(v)), "success")

get_file_or_folder_details(args, op, v) ==
  CASE op = "login" ->
         Call("webDavClient", "fetchObjects", [collection |-> args.fileUrl])
    [] op = "fetchObjects" -> Return(Success(stringifyIndented(v)), "success")

\* The handler of tool resumed with the value v its awaited call op resolved to.
Resume(tool, args, op, v, client) ==
  CASE tool = "get_my_calendars"           -> get_my_calendars(op, v)
    [] tool = "get_calendar_events"        -> get_calendar_events(args, op, v)
    [] tool = "get_my_contact_lists"       -> get_my_contact_lists(op, v)
    [] tool = "get_contacts_from_list"     -> get_contacts_from_list(args, op, v)
    [] tool = "list_my_files_and_folders"  -> list_my_files_and_folders(args, op, v, client)
    [] tool = "get_file_or_folder_details" -> get_file_or_folder_details(args, op, v)

-----------------------------------------------------------------------------
(* The inputs: the environment, the arguments the input schemas accept and *)
(* what the external DAV client answers.                                   *)

Providers == {Undefined, Str(""), Str("yahoo"), Str("fastmail"), Str("ICloud")}

Usernames == {Undefined, Str(""), Str("alice")}

Passwords == {Undefined, Str("pw")}

Environments ==
  [DAV_PROVIDER : Providers, DAV_USERNAME : Usernames, DAV_PASSWORD : Passwords]

\* The URLs of the containers (calendars, address books) the server lists.
ContainerUrls == {"/abc/", "/xyz/"}

\* The URLs a caller supplies: a listed one, and ones differing from it by
\* the trailing slash, by case, or altogether.
SuppliedUrls == {"/abc/", "/abc", "/ABC/", "/xyz/"}

ItemUrls == {"/abc/1"}

RECURSIVE SeqsUpTo(_, _)
\* The sequences over S of length at most n.
SeqsUpTo(S, n) ==
  IF n = 0 THEN {<<>>}
  ELSE SeqsUpTo(S, n - 1)
       \cup {Append(l, x) : l \in {m \in SeqsUpTo(S, n - 1) : Len(m) = n - 1}, x \in S}

ContainerLists == {Arr(l) : l \in SeqsUpTo({Obj(u) : u \in ContainerUrls}, MaxList)}

ItemLists == {Arr(l) : l \in SeqsUpTo({Obj(u) : u \in ItemUrls}, MaxList)}

\* z.string().datetime().optional()
TimeRangeStarts == {Undefined, Str("2024-01-01T00:00:00Z")}

TimeRangeEnds == {Undefined, Str("2024-02-01T00:00:00Z")}

\* z.string().optional()
Paths == {Undefined, Str(""), Str("/"), Str("Documents/Work"),
          Str("/Documents/Work"), Str("//Documents")}

FileUrls == {"https://webdav.fastmail.com/dav/principals/user/alice/a.txt"}

NoArgs == [none |-> TRUE]

\* The arguments the tool's input schema accepts.
ArgsOf(tool) ==
  CASE tool = "get_my_calendars"           -> {NoArgs}
    [] tool = "get_calendar_events"        ->
         [calendarUrl : SuppliedUrls, timeRangeStart : TimeRangeStarts,
          timeRangeEnd : TimeRangeEnds]
    [] tool = "get_my_contact_lists"       -> {NoArgs}
    [] tool = "get_contacts_from_list"     -> [addressBookUrl : SuppliedUrls]
    [] tool = "list_my_files_and_folders"  -> [path : Paths]
    [] tool = "get_file_or_folder_details" -> [fileUrl : FileUrls]

\* What an awaited call of the DAV client may resolve to.
ResultsOf(op) ==
  CASE op = "login" -> {Undefined}
    [] op \in {"fetchCalendars", "fetchAddressBooks"} -> ContainerLists
    [] op \in {"fetchCalendarObjects", "fetchVCards", "fetchObjects"} -> ItemLists

\* What an awaited call may reject with: an Error with a message, an Error
\* without one, a plain string, null and undefined.
Faults == {Err("Network down"), Err(""), Str("timeout"), Null, Undefined}

-----------------------------------------------------------------------------
(* The state machine.                                                      *)

\* The dispatcher runs one invocation to completion before the next.
Slots == {1}

\* A slot with no invocation in progress; last tells how the previous one
\* ended: "none" (there was none), "envelope" (its envelope was sent as the
\* response) or "rejected" (its handler threw and left no envelope).
IdleSlot(last) ==
  [pc |-> "idle", tool |-> "", args |-> NoArgs, calls |-> <<>>, rets |-> <<>>,
   outcome |-> [k |-> "none"], last |-> last]

\* The client handle a handler reads from the variable it closes over.
ClientHandle(tool) ==
  CASE ClientOf(tool) = "davClient"     -> davClient
    [] ClientOf(tool) = "cardDavClient" -> cardDavClient
    [] ClientOf(tool) = "webDavClient"  -> webDavClient

\* The handle named h after the awaited call op on the handle named on
\* succeeded: a login marks that handle authenticated, and nothing else of
\* any handle changes.
AfterCall(h, client, on, op) ==
  IF h = on /\ op = "login" THEN [client EXCEPT !.authenticated = TRUE] ELSE client

\* The slot after the handler took step: suspended on the call it made, or
\* finished with the envelope it returned or the exception it threw.
Advance(slot, step) ==
  IF step.k = "call"
  THEN [slot EXCEPT !.pc = "await",
                    !.calls = Append(@, [client |-> step.client, op |-> step.op,
                                         arg |-> step.arg])]
  ELSE [slot EXCEPT !.pc = IF step.k = "return" THEN "returned" ELSE "threw",
                    !.outcome = step]

\* The container URLs the invocation of the slot was given by its
\* fetchCalendars or fetchAddressBooks call.
ContainersGiven(slot) ==
  UNION {{slot.rets[i].v.items[j].url : j \in DOMAIN slot.rets[i].v.items} :
           i \in {k \in DOMAIN slot.rets :
                     /\ slot.rets[k].ok
                     /\ slot.calls[k].op \in {"fetchCalendars", "fetchAddressBooks"}}}

\* The state before the script runs, for an environment drawn from E and
\* the invocation slots S.
InitSlots(E, S) ==
  /\ env \in E
  /\ proc = Unset.proc
  /\ exitCode = Unset.exitCode
  /\ stderr = Unset.stderr
  /\ DAV_PROVIDER = Unset.DAV_PROVIDER
  /\ DAV_USERNAME = Unset.DAV_USERNAME
  /\ DAV_PASSWORD = Unset.DAV_PASSWORD
  /\ calDavServerUrl = Unset.calDavServerUrl
  /\ cardDavServerUrl = Unset.cardDavServerUrl
  /\ webDavServerUrl = Unset.webDavServerUrl
  /\ davClient = Unset.davClient
  /\ cardDavClient = Unset.cardDavClient
  /\ webDavClient = Unset.webDavClient
  /\ tools = Unset.tools
  /\ inv = [s \in S |-> IdleSlot("none")]
  /\ fetchedBefore = {}

\* The state before the script runs, for an environment drawn from E.
InitWith(E) == InitSlots(E, Slots)

Init == InitWith(Environments)

\* The top-level script runs to process exit or to server.connect.
Startup ==
  /\ proc = "starting"
  /\ LET b == Boot(env)
     IN /\ proc' = b.proc
        /\ exitCode' = b.exitCode
        /\ stderr' = b.stderr
        /\ DAV_PROVIDER' = b.DAV_PROVIDER
        /\ DAV_USERNAME' = b.DAV_USERNAME
        /\ DAV_PASSWORD' = b.DAV_PASSWORD
        /\ calDavServerUrl' = b.calDavServerUrl
        /\ cardDavServerUrl' = b.cardDavServerUrl
        /\ webDavServerUrl' = b.webDavServerUrl
        /\ davClient' = b.davClient
        /\ cardDavClient' = b.cardDavClient
        /\ webDavClient' = b.webDavClient
        /\ tools' = b.tools
  /\ UNCHANGED <<env, inv, fetchedBefore>>

\* A tool call arrives for a registered tool and its handler runs up to its
\* first await.
Invoke(s, tool, args) ==
  /\ proc = "serving"
  /\ tool \in tools
  /\ inv[s].pc = "idle"
  /\ inv' = [inv EXCEPT ![s] =
               Advance([IdleSlot(inv[s].last) EXCEPT !.tool = tool, !.args = args],
                       Enter(tool, ClientHandle(tool)))]
  /\ UNCHANGED <<env, process, config, fetchedBefore>>

RECURSIVE ObjsOf(_)
\* The objects of the URLs in S, in some order.
ObjsOf(S) ==
  IF S = {} THEN <<>>
  ELSE LET u == CHOOSE x \in S : TRUE IN <<Obj(u)>> \o ObjsOf(S \ {u})

\* A container list that arrives is merged with the containers kept from
\* the invocations before.
Resolve_Cached(s, v) ==
  /\ inv[s].pc = "await"
  /\ LET slot == inv[s]
         call == slot.calls[Len(slot.calls)]
         op == call.op
         used == IF op \in {"fetchCalendars", "fetchAddressBooks"}
                 THEN Arr(v.items \o ObjsOf(fetchedBefore)) ELSE v
     IN /\ v \in ResultsOf(op)
        /\ inv' = [inv EXCEPT ![s] =
                     Advance([slot EXCEPT !.rets = Append(@, [ok |-> TRUE, v |-> v])],
                             Resume(slot.tool, slot.args, op, used,
                                    ClientHandle(slot.tool)))]
        /\ davClient' = AfterCall("davClient", davClient, call.client, op)
        /\ cardDavClient' = AfterCall("cardDavClient", cardDavClient, call.client, op)
        /\ webDavClient' = AfterCall("webDavClient", webDavClient, call.client, op)
  /\ UNCHANGED <<env, process, DAV_PROVIDER, DAV_USERNAME, DAV_PASSWORD,
                 calDavServerUrl, cardDavServerUrl, webDavServerUrl, tools,
                 fetchedBefore>>

\* The awaited call of slot s resolves with v and the handler runs on.
Resolve(s, v) ==
  /\ inv[s].pc = "await"
  /\ LET slot == inv[s]
         call == slot.calls[Len(slot.calls)]
         op == call.op
     IN /\ v \in ResultsOf(op)
        /\ inv' = [inv EXCEPT ![s] =
                     Advance([slot EXCEPT !.rets = Append(@, [ok |-> TRUE, v |-> v])],
                             Resume(slot.tool, slot.args, op, v,
                                    ClientHandle(slot.tool)))]
        /\ davClient' = AfterCall("davClient", davClient, call.client, op)
        /\ cardDavClient' = AfterCall("cardDavClient", cardDavClient, call.client, op)
        /\ webDavClient' = AfterCall("webDavClient", webDavClient, call.client, op)
  /\ UNCHANGED <<env, process, DAV_PROVIDER, DAV_USERNAME, DAV_PASSWORD,
                 calDavServerUrl, cardDavServerUrl, webDavServerUrl, tools,
                 fetchedBefore>>

\* The awaited call of slot s rejects with error and the catch block runs.
Reject(s, error) ==
  /\ inv[s].pc = "await"
  /\ LET slot == inv[s]
     IN inv' = [inv EXCEPT ![s] =
                  Advance([slot EXCEPT !.rets = Append(@, [ok |-> FALSE, v |-> error])],
                          CatchBlock(CatchPrefix(slot.tool), error))]
  /\ UNCHANGED <<env, process, config, fetchedBefore>>

\* The envelope the handler of slot s returned is sent as the response.
Reply(s) ==
  /\ inv[s].pc = "returned"
  /\ inv' = [inv EXCEPT ![s] = IdleSlot("envelope")]
  /\ fetchedBefore' = fetchedBefore \cup ContainersGiven(inv[s])
  /\ UNCHANGED <<env, process, config>>

\* The exception the handler of slot s threw reaches its caller: the
\* invocation ends without an envelope of the handler.
Escape(s) ==
  /\ inv[s].pc = "threw"
  /\ inv' = [inv EXCEPT ![s] = IdleSlot("rejected")]
  /\ fetchedBefore' = fetchedBefore \cup ContainersGiven(inv[s])
  /\ UNCHANGED <<env, process, config>>

Next ==
  \/ Startup
  \/ \E s \in DOMAIN inv, tool \in AllTools : \E args \in ArgsOf(tool) : Invoke(s, tool, args)
  \/ \E s \in DOMAIN inv : \E v \in ContainerLists \cup ItemLists \cup {Undefined} : Resolve(s, v)
  \/ \E s \in DOMAIN inv, error \in Faults : Reject(s, error)
  \/ \E s \in DOMAIN inv : Reply(s)
  \/ \E s \in DOMAIN inv : Escape(s)

Spec == Init /\ [][Next]_vars

\* Provider resolution alone, over every spelling of the provider names.
ProviderSpellings ==
  CaseVariants("fastmail") \cup CaseVariants("icloud") \cup CaseVariants("yahoo")

ResolveEnvironments ==
  [DAV_PROVIDER : {Str(p) : p \in ProviderSpellings},
   DAV_USERNAME : {Str("alice"), Str("Bob@Example.com")},
   DAV_PASSWORD : {Str("pw")}]

InitResolve == InitWith(ResolveEnvironments)

NextResolve == Startup

SpecResolve == InitResolve /\ [][NextResolve]_vars

\* Overlapping invocations: the transport hands over a second tool call
\* while the handler of the first is suspended.  Two slots, over a choice
\* of the arguments and of the client's answers.
OverlapSlots == {1, 2}

OverlapEnvironments ==
  [DAV_PROVIDER : {Str("fastmail"), Str("ICloud")},
   DAV_USERNAME : {Str("alice")},
   DAV_PASSWORD : {Str("pw")}]

OverlapArgsOf(tool) ==
  CASE tool = "get_my_calendars"           -> {NoArgs}
    [] tool = "get_calendar_events"        ->
         [calendarUrl : {"/abc/", "/abc"}, timeRangeStart : {Undefined},
          timeRangeEnd : {Undefined}]
    [] tool = "get_my_contact_lists"       -> {NoArgs}
    [] tool = "get_contacts_from_list"     -> [addressBookUrl : {"/abc/", "/abc"}]
    [] tool = "list_my_files_and_folders"  -> [path : {Undefined, Str("Documents/Work")}]
    [] tool = "get_file_or_folder_details" -> [fileUrl : FileUrls]

OverlapResults ==
  {Undefined, Arr(<<>>), Arr(<<Obj("/abc/")>>), Arr(<<Obj("/abc/1")>>)}

OverlapFaults == {Err("Network down"), Null}

InitOverlap == InitSlots(OverlapEnvironments, OverlapSlots)

NextOverlap ==
  \/ Startup
  \/ \E s \in DOMAIN inv, tool \in AllTools :
       \E args \in OverlapArgsOf(tool) : Invoke(s, tool, args)
  \/ \E s \in DOMAIN inv : \E v \in OverlapResults : Resolve(s, v)
  \/ \E s \in DOMAIN inv, error \in OverlapFaults : Reject(s, error)
  \/ \E s \in DOMAIN inv : Reply(s)
  \/ \E s \in DOMAIN inv : Escape(s)

SpecOverlap == InitOverlap /\ [][NextOverlap]_vars

-----------------------------------------------------------------------------
(* Helpers of the properties.                                              *)

Envelope(slot) == slot.outcome.envelope

TextOf(slot) == Envelope(slot).content[1].text

HasIsError(slot) == "isError" \in DOMAIN Envelope(slot)

\* Some awaited call of the invocation rejected.
FaultInjected(slot) == \E i \in DOMAIN slot.rets : ~slot.rets[i].ok

\* The invocation looks a container up by URL.
LooksUp(slot) == slot.tool \in {"get_calendar_events", "get_contacts_from_list"}

SuppliedUrl(slot) ==
  IF slot.tool = "get_calendar_events" THEN slot.args.calendarUrl
  ELSE slot.args.addressBookUrl

\* The container list of the invocation has been fetched.
ListFetched(slot) ==
  LooksUp(slot) /\ Len(slot.rets) >= 2 /\ slot.rets[1].ok /\ slot.rets[2].ok

FetchedUrls(slot) ==
  {slot.rets[2].v.items[i].url : i \in DOMAIN slot.rets[2].v.items}

\* The calls of the invocation that fetch events or contact records.
RecordFetches(slot) ==
  {i \in DOMAIN slot.calls : slot.calls[i].op \in {"fetchCalendarObjects", "fetchVCards"}}

SupportedSpellings == CaseVariants("fastmail") \cup CaseVariants("icloud")

\* The start-up conditions the documentation calls fatal.
BadEnvironment(e) ==
  \/ ~Truthy(e.DAV_USERNAME)
  \/ ~Truthy(e.DAV_PASSWORD)
  \/ e.DAV_PROVIDER.t # "string"
  \/ e.DAV_PROVIDER.v \notin SupportedSpellings

-----------------------------------------------------------------------------
(* C1.  Whatever an awaited login or fetch call rejects with (an Error     *)
(* with or without a message, a string, null, undefined), the handler      *)
(* returns an envelope with isError = true and a non-empty text, and no    *)
(* exception leaves the handler.                                           *)
C1_FaultsYieldErrorEnvelope ==
  \A s \in DOMAIN inv :
    /\ inv[s].pc # "threw"
    /\ (FaultInjected(inv[s]) /\ inv[s].pc # "await") =>
         /\ inv[s].pc = "returned"
         /\ HasIsError(inv[s])
         /\ Envelope(inv[s]).isError = TRUE
         /\ TextOf(inv[s]) # ""

(* C2.  Every invocation that has ended was answered with exactly one      *)
(* envelope, and the dispatcher is idle again: no invocation ends with a   *)
(* handler failure in place of its envelope.                               *)
C2_EveryInvocationAnswered ==
  \A s \in DOMAIN inv :
    inv[s].pc = "idle" => inv[s].last \in {"none", "envelope"}

(* C3.  The catalog is fixed by the provider at start-up: with icloud it   *)
(* is exactly the two calendar and the two contact tools, with fastmail    *)
(* all six, and no later step changes it.                                  *)
C3_CatalogFixedByProvider ==
  /\ [](proc = "serving" =>
          /\ DAV_PROVIDER = Str("icloud") =>
               tools = {"get_my_calendars", "get_calendar_events",
                        "get_my_contact_lists", "get_contacts_from_list"}
          /\ DAV_PROVIDER = Str("fastmail") =>
               tools = {"get_my_calendars", "get_calendar_events",
                        "get_my_contact_lists", "get_contacts_from_list",
                        "list_my_files_and_folders", "get_file_or_folder_details"}
          /\ DAV_PROVIDER \in {Str("icloud"), Str("fastmail")})
  /\ [][proc = "serving" => tools' = tools]_vars

\* An icloud server that has answered an invocation, without the file tools.
C3_Witness ==
  /\ proc = "serving"
  /\ DAV_PROVIDER = Str("icloud")
  /\ tools \cap FileTools = {}
  /\ Cardinality(tools) = 4
  /\ \E s \in DOMAIN inv : inv[s].last = "envelope"

(* C4.  Start-up is all or nothing: with an empty account name or secret,  *)
(* or a missing or unsupported provider, the process exits with a failure  *)
(* status and a diagnostic, registers no tool and serves no invocation;    *)
(* tools are registered only with both credentials and a supported         *)
(* provider.                                                               *)
C4_StartupAllOrNothing ==
  /\ (proc # "starting" /\ BadEnvironment(env)) => proc = "exited"
  /\ proc = "exited" =>
       /\ exitCode # 0
       /\ stderr # <<>>
       /\ tools = {}
       /\ \A s \in DOMAIN inv : inv[s] = IdleSlot("none")
  /\ (tools # {} \/ \E s \in DOMAIN inv : inv[s] # IdleSlot("none")) =>
       /\ ~BadEnvironment(env)
       /\ proc = "serving"

\* The run with both credentials and the provider "yahoo" has exited.
C4_Witness ==
  /\ proc = "exited"
  /\ env.DAV_PROVIDER = Str("yahoo")
  /\ Truthy(env.DAV_USERNAME)
  /\ Truthy(env.DAV_PASSWORD)
  /\ exitCode = 1

\* The variables the start-up script assigns, as one record.
Booted ==
  [proc |-> proc, exitCode |-> exitCode, stderr |-> stderr,
   DAV_PROVIDER |-> DAV_PROVIDER, DAV_USERNAME |-> DAV_USERNAME,
   DAV_PASSWORD |-> DAV_PASSWORD,
   calDavServerUrl |-> calDavServerUrl, cardDavServerUrl |-> cardDavServerUrl,
   webDavServerUrl |-> webDavServerUrl,
   davClient |-> davClient, cardDavClient |-> cardDavClient,
   webDavClient |-> webDavClient, tools |-> tools]

\* a and b differ at most in the case of their letters.
SameIgnoringCase(a, b) ==
  /\ Len(a) = Len(b)
  /\ \A i \in 1..Len(a) :
       LET x == CharAt(a, i)
           y == CharAt(b, i)
       IN \/ x = y
          \/ x \in DOMAIN UpperToLower /\ UpperToLower[x] = y
          \/ y \in DOMAIN UpperToLower /\ UpperToLower[y] = x

(* C5.  Provider resolution is case-insensitive: once the script has run,  *)
(* the base addresses, the client handles (the file handle present or      *)
(* not) and the catalog are those the script yields for every other        *)
(* spelling of the same provider name with the same account.               *)
C5_ResolutionIgnoresCase ==
  proc # "starting" =>
    \A p \in ProviderSpellings :
      SameIgnoringCase(p, env.DAV_PROVIDER.v) =>
        Boot([env EXCEPT !.DAV_PROVIDER = Str(p)]) = Booted

\* The selector "ICLOUD" resolved to the icloud configuration.
C5_Witness ==
  /\ proc = "serving"
  /\ env.DAV_PROVIDER = Str("ICLOUD")
  /\ DAV_PROVIDER = Str("icloud")
  /\ calDavServerUrl = Str("https://caldav.icloud.com")
  /\ webDavClient = Undefined

OneBoundOnly(args) ==
  (args.timeRangeStart = Undefined) # (args.timeRangeEnd = Undefined)

BothBounds(args) ==
  args.timeRangeStart # Undefined /\ args.timeRangeEnd # Undefined

NoBounds(args) ==
  [args EXCEPT !.timeRangeStart = Undefined, !.timeRangeEnd = Undefined]

(* C6.  In get_calendar_events the event fetch carries a time range if and *)
(* only if both bounds were supplied (and then those two bounds), and an   *)
(* invocation with exactly one bound goes on, from every suspension point  *)
(* and for every answer of the client, exactly as the invocation with      *)
(* neither bound does: same next call with the same arguments, same        *)
(* envelope.                                                               *)
C6_TimeRangeOnlyWithBothBounds ==
  \A s \in DOMAIN inv :
    inv[s].tool = "get_calendar_events" =>
      LET slot == inv[s] IN
      /\ \A i \in DOMAIN slot.calls :
           slot.calls[i].op = "fetchCalendarObjects" =>
             /\ "timeRange" \in DOMAIN slot.calls[i].arg <=> BothBounds(slot.args)
             /\ BothBounds(slot.args) =>
                  slot.calls[i].arg.timeRange =
                    [start |-> slot.args.timeRangeStart, end |-> slot.args.timeRangeEnd]
             /\ ~BothBounds(slot.args) =>
                  slot.calls[i].arg = [calendar |-> slot.calls[i].arg.calendar]
      /\ (OneBoundOnly(slot.args) /\ slot.pc = "await") =>
           LET op == slot.calls[Len(slot.calls)].op
           IN \A v \in ResultsOf(op) :
                Resume(slot.tool, slot.args, op, v, davClient)
                  = Resume(slot.tool, NoBounds(slot.args), op, v, davClient)

\* Only timeRangeStart was supplied and the events were fetched without a range.
C6_Witness ==
  \E s \in DOMAIN inv :
    /\ inv[s].tool = "get_calendar_events"
    /\ inv[s].args.timeRangeStart # Undefined
    /\ inv[s].args.timeRangeEnd = Undefined
    /\ inv[s].pc = "returned"
    /\ Len(inv[s].calls) = 3
    /\ inv[s].calls[3].op = "fetchCalendarObjects"
    /\ "timeRange" \notin DOMAIN inv[s].calls[3].arg
    /\ ~HasIsError(inv[s])

(* C7.  When the supplied calendar (address-book) URL equals, character    *)
(* for character, the URL of no entry of the fetched list, the handler     *)
(* returns an error envelope whose text contains the supplied URL, and     *)
(* makes no event (vCard) fetch.                                           *)
C7_UnmatchedUrlIsNotFound ==
  \A s \in DOMAIN inv :
    (ListFetched(inv[s]) /\ SuppliedUrl(inv[s]) \notin FetchedUrls(inv[s])) =>
      /\ inv[s].pc = "returned"
      /\ HasIsError(inv[s])
      /\ Envelope(inv[s]).isError = TRUE
      /\ Includes(TextOf(inv[s]), SuppliedUrl(inv[s]))
      /\ RecordFetches(inv[s]) = {}
      /\ Len(inv[s].calls) = 2

\* "/abc" was asked for while the list holds "/abc/": not found.
C7_Witness ==
  \E s \in DOMAIN inv :
    /\ inv[s].tool = "get_calendar_events"
    /\ ListFetched(inv[s])
    /\ inv[s].args.calendarUrl = "/abc"
    /\ "/abc/" \in FetchedUrls(inv[s])
    /\ inv[s].pc = "returned"
    /\ inv[s].outcome.path = "notfound"

\* Distinct lists have distinct serializations.
StringifyInjective ==
  \A a, b \in ContainerLists \cup ItemLists :
    stringifyIndented(a) = stringifyIndented(b) => a = b

(* C8.  When the supplied URL equals the URL of an entry of the fetched    *)
(* list, the handler fetches the records of the first such entry, once;    *)
(* and when no call rejects it returns a success envelope (no isError)     *)
(* whose text is the JSON serialization of the list that fetch returned.   *)
C8_MatchedUrlFetchesOnce ==
  /\ StringifyInjective
  /\ \A s \in DOMAIN inv :
       (ListFetched(inv[s]) /\ SuppliedUrl(inv[s]) \in FetchedUrls(inv[s])) =>
         LET slot == inv[s]
             entry == find(slot.rets[2].v.items, SuppliedUrl(slot))
         IN /\ RecordFetches(slot) = {3}
            /\ Len(slot.calls) = 3
            /\ entry.url = SuppliedUrl(slot)
            /\ slot.tool = "get_contacts_from_list" =>
                 /\ slot.calls[3].op = "fetchVCards"
                 /\ slot.calls[3].arg = [addressBook |-> entry]
            /\ slot.tool = "get_calendar_events" =>
                 /\ slot.calls[3].op = "fetchCalendarObjects"
                 /\ slot.calls[3].arg.calendar = entry
            /\ (Len(slot.rets) = 3 /\ slot.rets[3].ok) =>
                 /\ slot.pc = "returned"
                 /\ ~HasIsError(slot)
                 /\ TextOf(slot) = stringifyIndented(slot.rets[3].v)

\* The contacts of the listed address book "/abc/" were returned.
C8_Witness ==
  \E s \in DOMAIN inv :
    /\ inv[s].tool = "get_contacts_from_list"
    /\ inv[s].args.addressBookUrl = "/abc/"
    /\ ListFetched(inv[s])
    /\ Len(inv[s].rets) = 3
    /\ inv[s].rets[3].ok
    /\ inv[s].rets[3].v.items # <<>>
    /\ inv[s].pc = "returned"
    /\ ~HasIsError(inv[s])

RECURSIVE StripTrailing(_)
\* s without the separators it ends with.
StripTrailing(s) == IF endsWith(s, "/") THEN StripTrailing(sliceDropLast(s)) ELSE s

RECURSIVE StripLeading(_)
\* s without the separators it begins with.
StripLeading(s) == IF startsWith(s, "/") THEN StripLeading(substring1(s)) ELSE s

(* C9.  In list_my_files_and_folders the target address is the base        *)
(* address joined to the path with exactly one separator at the join,      *)
(* whether or not the base ends and the path begins with a separator; a    *)
(* path with a leading separator gives the target of the same path         *)
(* without it; with no path the target is the base address unchanged.      *)
C9_ExactlyOneSeparatorAtJoin ==
  \A s \in DOMAIN inv :
    (inv[s].tool = "list_my_files_and_folders" /\ Len(inv[s].calls) >= 2) =>
      LET base == webDavClient.serverUrl
          path == inv[s].args.path
          target == inv[s].calls[2].arg.collection
      IN /\ path = Undefined => target = base
         /\ path # Undefined =>
              target = StripTrailing(base) \o "/" \o StripLeading(path.v)
         /\ (path # Undefined /\ startsWith(path.v, "/")) =>
              target = collectionUrl(base, Str(substring1(path.v)))

\* What the handler did after a call rejected, the client was absent or the
\* URL was not found: the invocation failed.
Failed(slot) ==
  \/ FaultInjected(slot)
  \/ slot.calls = <<>>
  \/ ListFetched(slot) /\ SuppliedUrl(slot) \notin FetchedUrls(slot)

(* C10.  Every envelope a handler returns holds exactly one content block, *)
(* of type "text" with a string text, and carries isError (true) if and    *)
(* only if the invocation failed.                                          *)
C10_EnvelopeWellFormed ==
  \A s \in DOMAIN inv :
    inv[s].pc = "returned" =>
      LET e == Envelope(inv[s]) IN
      /\ DOMAIN e \in {{"content"}, {"content", "isError"}}
      /\ Len(e.content) = 1
      /\ DOMAIN e.content[1] = {"type", "text"}
      /\ e.content[1].type = "text"
      /\ e.content[1].text \in STRING
      /\ HasIsError(inv[s]) <=> Failed(inv[s])
      /\ HasIsError(inv[s]) => e.isError = TRUE
      /\ Failed(inv[s]) <=> inv[s].outcome.path # "success"

\* An Error without a message was caught and reported as an error envelope.
C10_Witness ==
  \E s \in DOMAIN inv :
    /\ inv[s].pc = "returned"
    /\ inv[s].outcome.path = "caught"
    /\ inv[s].rets[Len(inv[s].rets)] = [ok |-> FALSE, v |-> Err("")]
    /\ Envelope(inv[s]).isError = TRUE

HandleNames == {"davClient", "cardDavClient", "webDavClient"}

\* The handle the variable named h holds.
Handle(h) ==
  CASE h = "davClient"     -> davClient
    [] h = "cardDavClient" -> cardDavClient
    [] h = "webDavClient"  -> webDavClient

\* The handle each family of tools is bound to.
BoundHandle(tool) ==
  IF tool \in {"get_my_calendars", "get_calendar_events"} THEN "davClient"
  ELSE IF tool \in {"get_my_contact_lists", "get_contacts_from_list"} THEN "cardDavClient"
  ELSE "webDavClient"

(* C11.  In every invocation the first call on the bound handle is         *)
(* login(), it is the only login() of the invocation, and it is made       *)
(* whether or not an earlier invocation authenticated the handle; when it  *)
(* rejects, the invocation makes no further call.  Before the first        *)
(* invocation no call has been made and no handle is authenticated.        *)
C11_LoginFirstOncePerInvocation ==
  /\ \A s \in DOMAIN inv :
       LET slot == inv[s] IN
       /\ slot.pc # "idle" =>
            /\ Len(slot.calls) >= 1
            /\ slot.calls[1] = [client |-> BoundHandle(slot.tool), op |-> "login",
                                arg |-> Undefined]
       /\ \A i \in DOMAIN slot.calls : slot.calls[i].op = "login" => i = 1
       /\ (Len(slot.rets) >= 1 /\ ~slot.rets[1].ok) => Len(slot.calls) = 1
       /\ Len(slot.calls) >= 2 => slot.rets[1] = [ok |-> TRUE, v |-> Undefined]
  /\ proc = "starting" => \A s \in DOMAIN inv : inv[s].calls = <<>>
  /\ \A h \in HandleNames :
       (Truthy(Handle(h)) /\ Handle(h).authenticated) =>
         \E s \in DOMAIN inv :
           \/ inv[s].last # "none"
           \/ Len(inv[s].rets) >= 1 /\ inv[s].rets[1].ok

\* A calendar invocation whose login() is pending on a handle that an
\* earlier invocation authenticated.
C11_Witness ==
  \E s \in DOMAIN inv :
    /\ inv[s].last = "envelope"
    /\ inv[s].tool = "get_my_calendars"
    /\ davClient.authenticated
    /\ inv[s].pc = "await"
    /\ inv[s].rets = <<>>
    /\ Len(inv[s].calls) = 1
    /\ inv[s].calls[1].op = "login"

RECURSIVE Replay(_, _, _, _, _)
\* The handler of tool run by itself from step on the answers rets, one
\* after the other: the step it ends on.
Replay(step, tool, args, rets, client) ==
  IF step.k # "call" \/ rets = <<>> THEN step
  ELSE Replay(IF Head(rets).ok
              THEN Resume(tool, args, step.op, Head(rets).v, client)
              ELSE CatchBlock(CatchPrefix(tool), Head(rets).v),
              tool, args, Tail(rets), client)

\* What the invocation of the slot comes to when it runs alone, with nothing
\* else in progress, on the answers it received.
RunAlone(slot) ==
  Replay(Enter(slot.tool, Handle(BoundHandle(slot.tool))), slot.tool, slot.args,
         slot.rets, Handle(BoundHandle(slot.tool)))

\* The slot stands where its invocation run alone stands.
AsRunAlone(slot) ==
  LET r == RunAlone(slot) IN
  IF slot.pc = "await"
  THEN /\ r.k = "call"
       /\ slot.calls[Len(slot.calls)] = [client |-> r.client, op |-> r.op, arg |-> r.arg]
  ELSE slot.outcome = r

(* C12.  Every call of a handler is on its own handle (calendar tools on   *)
(* davClient, contact tools on cardDavClient, file tools on webDavClient), *)
(* a step of an invocation changes no other handle and no other            *)
(* invocation, and however overlapping invocations interleave at their     *)
(* suspension points, each makes the calls and returns the envelope it     *)
(* makes and returns when run alone on the same answers.                   *)
C12_OwnHandleOnly ==
  /\ [](\A s \in DOMAIN inv :
          /\ \A i \in DOMAIN inv[s].calls :
               inv[s].calls[i].client = BoundHandle(inv[s].tool)
          /\ inv[s].pc # "idle" => AsRunAlone(inv[s]))
  /\ [][proc = "serving" =>
          /\ \A h \in HandleNames :
               Handle(h)' # Handle(h) =>
                 \E s \in DOMAIN inv :
                   /\ inv[s].pc = "await"
                   /\ BoundHandle(inv[s].tool) = h
                   /\ inv'[s] # inv[s]
          /\ \A s, u \in DOMAIN inv :
               (inv'[s] # inv[s] /\ inv'[u] # inv[u]) => s = u]_vars

\* A calendar invocation has returned its events while a contact invocation,
\* begun before it ended, is suspended on its address-book fetch.
C12_Witness ==
  \E s, u \in DOMAIN inv :
    /\ inv[s].tool = "get_calendar_events"
    /\ inv[s].pc = "returned"
    /\ inv[s].outcome.path = "success"
    /\ inv[u].tool = "get_contacts_from_list"
    /\ inv[u].pc = "await"
    /\ Len(inv[u].calls) = 2
    /\ davClient.authenticated
    /\ cardDavClient.authenticated

\* The call that lists the containers of the tool.
ListOp(tool) ==
  IF tool = "get_calendar_events" THEN "fetchCalendars" ELSE "fetchAddressBooks"

(* C13.  Nothing fetched is kept from one invocation to the next: every    *)
(* get_calendar_events and get_contacts_from_list invocation lists the     *)
(* containers itself, after its own login, and takes the supplied URL as   *)
(* found exactly when the list it was given holds it, whatever earlier     *)
(* invocations were given; and every invocation stands where its handler   *)
(* run on its own arguments and answers alone stands.                      *)
C13_NothingKeptAcrossInvocations ==
  \A s \in DOMAIN inv :
    LET slot == inv[s] IN
    /\ (LooksUp(slot) /\ Len(slot.rets) >= 1 /\ slot.rets[1].ok) =>
         /\ Len(slot.calls) >= 2
         /\ slot.calls[2].op = ListOp(slot.tool)
    /\ ListFetched(slot) =>
         /\ SuppliedUrl(slot) \in FetchedUrls(slot) <=> Len(slot.calls) = 3
         /\ SuppliedUrl(slot) \notin FetchedUrls(slot) <=>
              (slot.pc = "returned" /\ slot.outcome.path = "notfound")
    /\ slot.pc # "idle" => AsRunAlone(slot)

\* The calendar "/abc/" was in a list an earlier invocation was given, is
\* not in the list this invocation was given, and is reported not found.
C13_Witness ==
  \E s \in DOMAIN inv :
    /\ inv[s].tool = "get_calendar_events"
    /\ inv[s].args.calendarUrl = "/abc/"
    /\ "/abc/" \in fetchedBefore
    /\ inv[s].last = "envelope"
    /\ ListFetched(inv[s])
    /\ "/abc/" \notin FetchedUrls(inv[s])
    /\ inv[s].pc = "returned"
    /\ inv[s].outcome.path = "notfound"

(* C14.  While the server serves, the handle every registered tool is      *)
(* bound to is present, and the catalog and the handles are the ones the   *)
(* start-up script built, a handle changing only by being logged in: no    *)
(* calendar or contact invocation returns through the "client not          *)
(* initialized" guard, and every file invocation finds its handle and      *)
(* makes its login() call on it.                                           *)
C14_BoundHandlesPresent ==
  /\ proc = "serving" =>
       /\ \A tool \in tools : Truthy(Handle(BoundHandle(tool)))
       /\ tools = Boot(env).tools
       /\ \A h \in HandleNames :
            IF Truthy(Boot(env)[h])
            THEN /\ Truthy(Handle(h))
                 /\ [Handle(h) EXCEPT !.authenticated = FALSE] = Boot(env)[h]
            ELSE Handle(h) = Boot(env)[h]
  /\ \A s \in DOMAIN inv :
       LET slot == inv[s] IN
       /\ slot.pc = "returned" => slot.outcome.path # "guard"
       /\ slot.pc # "idle" =>
            /\ slot.tool \in tools
            /\ Truthy(Handle(BoundHandle(slot.tool)))
            /\ Len(slot.calls) >= 1
            /\ slot.calls[1].client = BoundHandle(slot.tool)

\* A fastmail server that has answered an invocation and now runs a file
\* invocation past its login(), on the handle built at start-up.
C14_Witness ==
  /\ proc = "serving"
  /\ DAV_PROVIDER = Str("fastmail")
  /\ Truthy(webDavClient)
  /\ webDavClient.authenticated
  /\ davClient.authenticated
  /\ \E s \in DOMAIN inv :
       /\ inv[s].last = "envelope"
       /\ inv[s].tool = "list_my_files_and_folders"
       /\ inv[s].pc = "await"
       /\ Len(inv[s].calls) = 2

====
